---------------------------- MODULE Spec2Model ----------------------------
(***************************************************************************)
(* The A2A JSON-RPC task registry and streaming bridge of                  *)
(* src/mlflow-a2a-agent/server.py (specification Spec), the conversation   *)
(* state of src/kagent-mlflow-response-agent/agent.py (SpecAgent) and the  *)
(* MLflow runs of the two OpenAI-compatible adapters,                      *)
(* src/kagent-mlflow-response-agent/server.py and                          *)
(* src/kagent-mlflow-agent/app.py (SpecRuns).  The three are separate      *)
(* processes; each specification moves the variables of one of them.       *)
(*                                                                         *)
(* The server is a single asyncio event loop.  A coroutine runs without    *)
(* interruption until it awaits or yields, so every action below is one    *)
(* such uninterrupted segment:                                             *)
(*   - a non-streaming POST / (json_rpc_endpoint calling handle_tasks_send,*)
(*     handle_tasks_get or handle_tasks_cancel; agent.predict is a         *)
(*     blocking call made on the loop, server.py:313) is one action;       *)
(*   - a streaming tasks/send is the async generator                       *)
(*     handle_tasks_send_stream, cut at its yields and at its              *)
(*     await loop.run_in_executor (server.py:187,222,233,253,263,274).     *)
(*                                                                         *)
(* Texts (message text, responder output, artifact text) are sequences of  *)
(* characters, so that Python's += on strings is \o.  Exception messages   *)
(* (str(e)) are opaque strings.                                            *)
(***************************************************************************)
EXTENDS Integers, Sequences, FiniteSets, TLC

VARIABLES
    tasks,      \* server.py:136  the registry: task id -> Task
    reply,      \* the POST / just handled and json_rpc_endpoint's answer to it
    streams,    \* per streaming send: the generator's frame and the events sent
    sends,      \* how many tasks/send requests have been taken so far
    last_response_id,   \* kagent-mlflow-response-agent/agent.py:141  LlamaStackAgent._last_response_id
    upstream_calls,     \* the client.responses.create calls made so far, each with what it carried
    deployment,         \* which OpenAI-compatible adapter runs, and whether MLFLOW_TRACKING_URI is set
    mlflow,             \* the MLflow client of the adapter's process: its active run stack
    chat,               \* per POST /v1/chat/completions in flight: where its coroutine is suspended
    last_chat           \* the POST /v1/chat/completions that finished last

a2a_vars == <<tasks, reply, streams, sends>>

agent_vars == <<last_response_id, upstream_calls>>

runs_vars == <<deployment, mlflow, chat, last_chat>>

vars == <<tasks, reply, streams, sends, last_response_id, upstream_calls,
          deployment, mlflow, chat, last_chat>>

-----------------------------------------------------------------------------
(* Bounds of the model *)

\* tasks/send requests (streaming or not) the server takes in one behaviour;
\* tasks/get, tasks/cancel and malformed requests are not limited
MaxSends == 2
\* output items a responder returns at most
MaxItems == 2

-----------------------------------------------------------------------------
(* Values *)

\* Python's None / JSON null
None == "None"
\* a JSON id that is not a string (e.g. the number 5)
IntId == "int:5"
\* strings a caller can supply as params.id; "" is falsy in Python
CallerIds == {"a"}
\* ids made by f"task_{uuid4().hex[:12]}" (server.py:142,179)
GenIds == {"task_" \o ToString(n) : n \in 1..MaxSends}
StrIds == CallerIds \cup GenIds
\* every value params.get("id") can have
IdVals == StrIds \cup {None, IntId}

\* one slot per streaming send
Slots == 1..MaxSends

\* str(e) of the exceptions a responder raises
RaiseMsgs == {"upstream down"}
\* str(e) of the AttributeError of "hello".get("parts", [])
AttrErrMsg == "'str' object has no attribute 'get'"
\* str(e) of pydantic's ValidationError for Task(id=5)
ValidationMsg == "1 validation error for Task"
\* str(e) of the AttributeError of params.get when params is a JSON array
ParamsErrMsg == "'list' object has no attribute 'get'"

NoText == <<>>

\* The i-th output item of a responder carries the i-th letter, so that order,
\* concatenation and "last one wins" are all told apart.
Letters == <<"A", "B", "C", "D">>

-----------------------------------------------------------------------------
(* A2A types, server.py:68-85 *)

\* Task.artifacts is Optional[List]: the code only ever holds None or a
\* non-empty list (server.py:161-163), so the empty sequence stands for None.
NoArtifacts == <<>>

TaskStatus(state, message) == [state |-> state, message |-> message]

TaskArtifact(name, parts) == [name |-> name, description |-> None, parts |-> parts]

Task(id) == [id |-> id, status |-> TaskStatus("submitted", None), artifacts |-> NoArtifacts]

\* the "result" of a reply that carries none
NoTask == [id |-> None, status |-> TaskStatus(None, None), artifacts |-> NoArtifacts]

TextPart(text) == [type |-> "text", text |-> text]

-----------------------------------------------------------------------------
(* Inputs *)

\* one element of params.message.parts; a key that is absent is None
Part(kind, type, text) == [kind |-> kind, type |-> type, text |-> text]

\* params.message: absent (params.get("message", {}) gives {}), a JSON object,
\* or a JSON string (on which .get raises AttributeError)
NoMessage == [shape |-> "absent", role |-> None, parts |-> <<>>]

\* a message of two text parts, one told by its kind and one by its type
TwoTexts ==
    [shape |-> "dict", role |-> "user",
     parts |-> <<Part("text", None, <<"A">>), Part(None, "text", <<"B">>)>>]

Messages ==
    { NoMessage, TwoTexts,
      [shape |-> "dict", role |-> "user",
       parts |-> <<Part("image", None, <<"A">>), Part("text", None, <<"B">>)>>],
      [shape |-> "str", role |-> None, parts |-> <<>>] }

\* the messages the state machine sends
SendMessages == Messages

\* body.get("params", {}): a JSON object with optional id and message, or a
\* JSON array (obj = FALSE)
Params(id, message) == [obj |-> TRUE, id |-> id, message |-> message]

BadParams == [obj |-> FALSE, id |-> None, message |-> NoMessage]

\* an output item of the responder: with a text, or without one
Item(i, has_text) == [has_text |-> has_text, text |-> IF has_text THEN <<Letters[i]>> ELSE NoText]

\* the outputs tried: up to MaxItems items, of which the last may lack a text
Outputs ==
    UNION { { [i \in 1..n |-> Item(i, i < n \/ last)] : last \in BOOLEAN } : n \in 0..MaxItems }

\* What Llama Stack does in one call of the reference responder
\* (agent_wrapper.py:174-239): the session cannot be created (step "session"),
\* the turn fails (step "turn"), or the turn ends (step "done") having streamed
\* the text, with or without a last chunk that carries the response (final).
\* has_text: whether an output item made by create_text_output_item shows a
\* text to hasattr(item, "text") / "text" in item (server.py:318-321); the
\* item's class is mlflow's and either is possible.
Upstream(step, msg, text, final, has_text) ==
    [step |-> step, msg |-> msg, text |-> text, final |-> final, has_text |-> has_text]

\* a responder that is not known to be the reference one
NoUpstream == Upstream(None, None, <<>>, FALSE, FALSE)

\* str(e) of the exceptions of the Llama Stack client
UpstreamMsgs == {"connection refused"}

Upstreams ==
    { Upstream("session", m, <<>>, FALSE, FALSE) : m \in UpstreamMsgs }
    \cup { Upstream("turn", m, <<>>, FALSE, ht) : m \in UpstreamMsgs, ht \in BOOLEAN }
    \cup { Upstream("done", None, <<"A">>, TRUE, TRUE) }

\* what one call of the responder does: returns output items, or raises
Returns(items) == [raises |-> FALSE, msg |-> None, items |-> items, upstream |-> NoUpstream]

Raises(msg) == [raises |-> TRUE, msg |-> msg, items |-> <<>>, upstream |-> NoUpstream]

\* agent_wrapper.py:213-216: create_text_output_item(text=...)
create_text_output_item(text, has_text) ==
    [has_text |-> has_text, text |-> IF has_text THEN text ELSE NoText]

\* LlamaStackAgentWrapper.predict_stream, agent_wrapper.py:174-239, as the
\* response.output_item.done items it yields (predict, 157-172, returns the
\* same items).  _get_or_create_session is called outside the try block (183);
\* an exception of create_turn is caught and becomes an output item (230-239);
\* the final item is yielded at 211 when a chunk carries the response, and
\* again at 221, whose second condition is always true.
predict_stream(up) ==
    IF up.step = "session"
    THEN [Raises(up.msg) EXCEPT !.upstream = up]
    ELSE IF up.step = "turn"
    THEN [Returns(<<create_text_output_item(<<"Error: " \o up.msg>>, up.has_text)>>)
             EXCEPT !.upstream = up]
    ELSE LET item == create_text_output_item(up.text, up.has_text)
         IN  [Returns(IF up.text = <<>> THEN <<>>
                      ELSE IF up.final THEN <<item, item>> ELSE <<item>>)
                 EXCEPT !.upstream = up]

\* the responder is pluggable: any outcome, or the reference responder's
Outcomes ==
    { Returns(o) : o \in Outputs } \cup { Raises(m) : m \in RaiseMsgs }
    \cup { predict_stream(up) : up \in Upstreams }

-----------------------------------------------------------------------------
(* Task storage, server.py:136-163 *)

Put(reg, k, v) == [x \in DOMAIN reg \cup {k} |-> IF x = k THEN v ELSE reg[x]]

\* uuid4: an id no task has yet
FreshId(reg) ==
    LET free == { n \in 1..MaxSends : ("task_" \o ToString(n)) \notin DOMAIN reg }
    IN  "task_" \o ToString(CHOOSE n \in free : \A m \in free : n <= m)

\* a create_task that keeps the record an id already has (a variant C10 excludes)
create_task_keep(reg, task_id) ==
    LET id == IF task_id = None THEN FreshId(reg) ELSE task_id
    IN  IF id = IntId
        THEN [ok |-> FALSE, reg |-> reg, id |-> id]
        ELSE [ok |-> TRUE, reg |-> IF id \in DOMAIN reg THEN reg ELSE Put(reg, id, Task(id)),
              id |-> id]

\* create_task: Task(id=...) is validated before tasks[task_id] is assigned, and
\* pydantic refuses an id that is not a string.
create_task(reg, task_id) ==
    LET id == IF task_id = None THEN FreshId(reg) ELSE task_id
    IN  IF id = IntId
        THEN [ok |-> FALSE, reg |-> reg, id |-> id]
        ELSE [ok |-> TRUE, reg |-> Put(reg, id, Task(id)), id |-> id]

\* an update_task_status that refuses to leave a terminal state (a variant C8
\* excludes)
update_task_status_guarded(reg, task_id, state, message) ==
    IF task_id \in DOMAIN reg /\ reg[task_id].status.state \notin {"completed", "failed", "canceled"}
    THEN [reg EXCEPT ![task_id].status = TaskStatus(state, message)]
    ELSE reg

\* an update_task_status that keeps the stored message when it is given none
\* (a variant C23 excludes)
update_task_status_keep_message(reg, task_id, state, message) ==
    IF task_id \in DOMAIN reg
    THEN [reg EXCEPT ![task_id].status =
              TaskStatus(state, IF message = None THEN @.message ELSE message)]
    ELSE reg

\* an update_task_status that writes the status of every stored record (a
\* variant C25 excludes)
update_task_status_all(reg, task_id, state, message) ==
    IF task_id \in DOMAIN reg
    THEN [i \in DOMAIN reg |-> [reg[i] EXCEPT !.status = TaskStatus(state, message)]]
    ELSE reg

update_task_status(reg, task_id, state, message) ==
    IF task_id \in DOMAIN reg
    THEN [reg EXCEPT ![task_id].status = TaskStatus(state, message)]
    ELSE reg

add_task_artifact(reg, task_id, artifact) ==
    IF task_id \in DOMAIN reg
    THEN [reg EXCEPT ![task_id].artifacts = Append(@, artifact)]
    ELSE reg

-----------------------------------------------------------------------------
(* Message and output text *)

\* a content that only looks at the kind of a part (a variant C11 excludes)
RECURSIVE content_of_kind_only(_)
content_of_kind_only(parts) ==
    IF parts = <<>> THEN <<>>
    ELSE (IF Head(parts).kind = "text" THEN Head(parts).text ELSE <<>>)
         \o content_of_kind_only(Tail(parts))

\* server.py:300-305 (and 195-202): content += part.get("text", "") for every
\* part whose kind or type is "text"
RECURSIVE content_of(_)
content_of(parts) ==
    IF parts = <<>> THEN <<>>
    ELSE LET part == Head(parts)
         IN  (IF part.kind = "text" \/ part.type = "text" THEN part.text ELSE <<>>)
             \o content_of(Tail(parts))

\* server.py:316-321: output_text += output_item.text for every item with a text
RECURSIVE output_text_of(_)
output_text_of(items) ==
    IF items = <<>> THEN <<>>
    ELSE (IF Head(items).has_text THEN Head(items).text ELSE <<>>)
         \o output_text_of(Tail(items))

\* the request handed to the responder (server.py:308-310, 205-207)
ResponsesAgentRequest(message) ==
    [role |-> IF message.role = None THEN "user" ELSE message.role,
     content |-> content_of(message.parts)]

\* no request: the responder was not called
NoRequest == [role |-> None, content |-> <<>>]

-----------------------------------------------------------------------------
(* Handlers, server.py:281-356.  A handler maps the registry to the registry  *)
(* it leaves, with what it returns (ret) or raises (exc).                       *)

NoExc == [type |-> None, status |-> 0, msg |-> None]

HTTPException(status, detail) == [type |-> "HTTPException", status |-> status, msg |-> detail]

Exception(msg) == [type |-> "Exception", status |-> 0, msg |-> msg]

\* asked: how many times the handler called the responder
Returned(reg, task_id) == [reg |-> reg, exc |-> NoExc, ret |-> reg[task_id], asked |-> 0]

Raised(reg, exc) == [reg |-> reg, exc |-> exc, ret |-> NoTask, asked |-> 0]

\* f"Task {task_id} not found"
NotFound(task_id) == HTTPException(404, "Task " \o task_id \o " not found")

\* a try block without its except: a raise leaves the record as it is (a
\* variant C1 excludes)
send_body_unguarded(reg, task_id, message, outcome) ==
    IF message.shape = "str" \/ outcome.raises
    THEN reg
    ELSE LET artifact == TaskArtifact("response", <<TextPart(output_text_of(outcome.items))>>)
         IN  update_task_status(add_task_artifact(reg, task_id, artifact), task_id, "completed", None)

\* server.py:298-333: the try block of handle_tasks_send, from the registry with
\* the task already working
send_body(reg, task_id, message, outcome) ==
    IF message.shape = "str"
    THEN update_task_status(reg, task_id, "failed", AttrErrMsg)
    ELSE IF outcome.raises
    THEN update_task_status(reg, task_id, "failed", outcome.msg)
    ELSE LET artifact == TaskArtifact("response", <<TextPart(output_text_of(outcome.items))>>)
         IN  update_task_status(add_task_artifact(reg, task_id, artifact), task_id, "completed", None)

\* a handle_tasks_send whose except block re-raises after marking the record
\* failed (a variant C2 excludes)
handle_tasks_send_reraise(reg, params, outcome) ==
    IF ~params.obj THEN Raised(reg, Exception(ParamsErrMsg))
    ELSE LET c == create_task(reg, params.id)
         IN  IF ~c.ok THEN Raised(reg, Exception(ValidationMsg))
             ELSE LET working == update_task_status(c.reg, c.id, "working", None)
                      done == send_body(working, c.id, params.message, outcome)
                  IN  IF done[c.id].status.state = "failed"
                      THEN Raised(done, Exception(done[c.id].status.message))
                      ELSE Returned(done, c.id)

\* a handle_tasks_send that calls the responder again when it raised (a
\* variant C22 excludes)
handle_tasks_send_retry(reg, params, outcome) ==
    IF ~params.obj THEN Raised(reg, Exception(ParamsErrMsg))
    ELSE LET c == create_task(reg, params.id)
         IN  IF ~c.ok THEN Raised(reg, Exception(ValidationMsg))
             ELSE LET working == update_task_status(c.reg, c.id, "working", None)
                  IN  [Returned(send_body(working, c.id, params.message, outcome), c.id)
                          EXCEPT !.asked = IF params.message.shape = "str" THEN 0
                                           ELSE IF outcome.raises THEN 2 ELSE 1]

\* agent.predict is called once, at server.py:313, when the message is an object
handle_tasks_send(reg, params, outcome) ==
    IF ~params.obj THEN Raised(reg, Exception(ParamsErrMsg))
    ELSE LET c == create_task(reg, params.id)
         IN  IF ~c.ok THEN Raised(reg, Exception(ValidationMsg))
             ELSE LET working == update_task_status(c.reg, c.id, "working", None)
                  IN  [Returned(send_body(working, c.id, params.message, outcome), c.id)
                          EXCEPT !.asked = IF params.message.shape = "str" THEN 0 ELSE 1]

\* a handle_tasks_get that answers an unknown id with a default-constructed
\* task it stores (a variant C3 excludes)
handle_tasks_get_default(reg, params) ==
    IF ~params.obj THEN Raised(reg, Exception(ParamsErrMsg))
    ELSE IF params.id \notin DOMAIN reg
    THEN Returned(Put(reg, params.id, Task(params.id)), params.id)
    ELSE Returned(reg, params.id)

\* a handle_tasks_get that marks the record it returns as working (a variant
\* C9 excludes)
handle_tasks_get_mark(reg, params) ==
    IF ~params.obj THEN Raised(reg, Exception(ParamsErrMsg))
    ELSE IF params.id \notin DOMAIN reg THEN Raised(reg, NotFound(params.id))
    ELSE Returned(update_task_status(reg, params.id, "working", None), params.id)

handle_tasks_get(reg, params) ==
    IF ~params.obj THEN Raised(reg, Exception(ParamsErrMsg))
    ELSE IF params.id \notin DOMAIN reg THEN Raised(reg, NotFound(params.id))
    ELSE Returned(reg, params.id)

\* a handle_tasks_cancel that refuses a task already canceled (a variant C7
\* excludes)
handle_tasks_cancel_once(reg, params) ==
    IF ~params.obj THEN Raised(reg, Exception(ParamsErrMsg))
    ELSE IF params.id \notin DOMAIN reg THEN Raised(reg, NotFound(params.id))
    ELSE IF reg[params.id].status.state = "canceled"
    THEN Raised(reg, HTTPException(409, "Task " \o params.id \o " already canceled"))
    ELSE Returned(update_task_status(reg, params.id, "canceled", None), params.id)

\* a handle_tasks_cancel that drops the record it has canceled (a variant C29
\* excludes)
handle_tasks_cancel_delete(reg, params) ==
    IF ~params.obj THEN Raised(reg, Exception(ParamsErrMsg))
    ELSE IF params.id \notin DOMAIN reg THEN Raised(reg, NotFound(params.id))
    ELSE [Returned(update_task_status(reg, params.id, "canceled", None), params.id)
             EXCEPT !.reg = [i \in DOMAIN reg \ {params.id} |-> reg[i]]]

handle_tasks_cancel(reg, params) ==
    IF ~params.obj THEN Raised(reg, Exception(ParamsErrMsg))
    ELSE IF params.id \notin DOMAIN reg THEN Raised(reg, NotFound(params.id))
    ELSE Returned(update_task_status(reg, params.id, "canceled", None), params.id)

\* server.py:359-363
JSON_RPC_METHODS == {"tasks/send", "tasks/get", "tasks/cancel"}

\* a list that also streams tasks/get (a variant C16 excludes)
SSE_METHODS_with_get ==
    {"tasks/send", "tasks/get", "messages/send", "tasks/sendStreaming", "messages/sendStreaming"}

\* server.py:449
SSE_METHODS == {"tasks/send", "messages/send", "tasks/sendStreaming", "messages/sendStreaming"}

-----------------------------------------------------------------------------
(* The streaming send, server.py:170-278, and the event_generator wrapped     *)
(* around it, server.py:452-465.  A frame is the suspended generator: where   *)
(* it stands (pc), its locals, and the events it has yielded so far.          *)

Event(type, taskId, state, message, text) ==
    [type |-> type, taskId |-> taskId, state |-> state, message |-> message, text |-> text]

StatusUpdate(taskId, state, message) == Event("task.status.update", taskId, state, message, <<>>)

ArtifactUpdate(taskId, text) == Event("task.artifact.update", taskId, None, None, text)

ArtifactDone(taskId, text) == Event("task.artifact.done", taskId, None, None, text)

TaskComplete(taskId) == Event("task.complete", taskId, "completed", None, <<>>)

\* event_generator's own event for an exception that leaves the generator
ErrorEvent(msg) == Event("error", None, None, msg, <<>>)

IdleFrame ==
    [pc |-> "idle", task_id |-> None, message |-> NoMessage, request |-> NoRequest,
     calls |-> 0, items |-> <<>>, k |-> 0, accumulated_text |-> <<>>, events |-> <<>>]

Stepped(reg, frame) == [reg |-> reg, frame |-> frame]

\* the pcs at which the generator is suspended and a client is still served
Suspended == {"yield_working", "await_executor", "yield_update",
              "yield_artifact_done", "yield_complete", "yield_failed"}

\* the pcs at which the generator is suspended in a yield
AtYield == Suspended \ {"await_executor"}

\* server.py:269-278: the except block
stream_failed(reg, f, msg) ==
    Stepped(update_task_status(reg, f.task_id, "failed", msg),
            [f EXCEPT !.pc = "yield_failed",
                      !.events = Append(@, StatusUpdate(f.task_id, "failed", msg))])

\* a loop that goes from the last artifact update straight to task.complete,
\* without the artifact done event (a variant C5 excludes)
stream_loop_no_done(reg, f) ==
    IF f.k < Len(f.items)
    THEN LET item == f.items[f.k + 1]
             text == IF item.has_text THEN item.text ELSE f.accumulated_text
         IN  Stepped(reg, [f EXCEPT !.pc = "yield_update", !.k = @ + 1,
                                    !.accumulated_text = text,
                                    !.events = Append(@, ArtifactUpdate(f.task_id, text))])
    ELSE LET artifact == TaskArtifact("response", <<TextPart(f.accumulated_text)>>)
             added == add_task_artifact(reg, f.task_id, artifact)
         IN  Stepped(update_task_status(added, f.task_id, "completed", None),
                     [f EXCEPT !.pc = "yield_complete",
                               !.events = Append(@, TaskComplete(f.task_id))])

\* server.py:224-260: the for loop from event k+1 on, then the final artifact
stream_loop(reg, f) ==
    IF f.k < Len(f.items)
    THEN LET item == f.items[f.k + 1]
             text == IF item.has_text THEN item.text ELSE f.accumulated_text
         IN  Stepped(reg, [f EXCEPT !.pc = "yield_update", !.k = @ + 1,
                                    !.accumulated_text = text,
                                    !.events = Append(@, ArtifactUpdate(f.task_id, text))])
    ELSE LET artifact == TaskArtifact("response", <<TextPart(f.accumulated_text)>>)
             added == add_task_artifact(reg, f.task_id, artifact)
         IN  Stepped(update_task_status(added, f.task_id, "completed", None),
                     [f EXCEPT !.pc = "yield_artifact_done",
                               !.events = Append(@, ArtifactDone(f.task_id, f.accumulated_text))])

\* a generator that yields its first event before it marks the record working
\* (a variant C28 excludes)
stream_start_submitted(reg, params) ==
    IF ~params.obj
    THEN Stepped(reg, [IdleFrame EXCEPT !.pc = "yield_error",
                                        !.events = <<ErrorEvent(ParamsErrMsg)>>])
    ELSE LET task_id == IF params.id \in {None, ""} THEN FreshId(reg) ELSE params.id
             c == create_task(reg, task_id)
         IN  IF ~c.ok
             THEN Stepped(reg, [IdleFrame EXCEPT !.pc = "yield_error",
                                                 !.events = <<ErrorEvent(ValidationMsg)>>])
             ELSE Stepped(c.reg,
                          [IdleFrame EXCEPT !.pc = "yield_working", !.task_id = c.id,
                                            !.message = params.message,
                                            !.events = <<StatusUpdate(c.id, "working", None)>>])

\* server.py:178-191: up to the first yield; an exception here leaves the
\* generator and event_generator reports it (server.py:459-465)
stream_start(reg, params) ==
    IF ~params.obj
    THEN Stepped(reg, [IdleFrame EXCEPT !.pc = "yield_error",
                                        !.events = <<ErrorEvent(ParamsErrMsg)>>])
    ELSE LET task_id == IF params.id \in {None, ""} THEN FreshId(reg) ELSE params.id
             c == create_task(reg, task_id)
         IN  IF ~c.ok
             THEN Stepped(reg, [IdleFrame EXCEPT !.pc = "yield_error",
                                                 !.events = <<ErrorEvent(ValidationMsg)>>])
             ELSE Stepped(update_task_status(c.reg, c.id, "working", None),
                          [IdleFrame EXCEPT !.pc = "yield_working", !.task_id = c.id,
                                            !.message = params.message,
                                            !.events = <<StatusUpdate(c.id, "working", None)>>])

\* the generator resumed from a yield by the consumer's next pull
stream_next(reg, f) ==
    CASE f.pc = "yield_working" ->
            IF f.message.shape = "str"
            THEN stream_failed(reg, f, AttrErrMsg)
            ELSE Stepped(reg, [f EXCEPT !.pc = "await_executor", !.calls = @ + 1,
                                        !.request = ResponsesAgentRequest(f.message)])
      [] f.pc = "yield_update" -> stream_loop(reg, f)
      [] f.pc = "yield_artifact_done" ->
            Stepped(reg, [f EXCEPT !.pc = "yield_complete",
                                   !.events = Append(@, TaskComplete(f.task_id))])
      [] OTHER -> Stepped(reg, IdleFrame)

\* server.py:216-222: run_in_executor returns what agent.predict_stream did;
\* message and request are not read again
stream_resume(reg, f, outcome) ==
    LET g == [f EXCEPT !.message = NoMessage, !.request = NoRequest]
    IN  IF outcome.raises
        THEN stream_failed(reg, g, outcome.msg)
        ELSE stream_loop(reg, [g EXCEPT !.items = outcome.items])

-----------------------------------------------------------------------------
(* POST /, server.py:396-509 *)

\* the request ids a caller sends; None is a request without id
RequestIds == {None, "req-1"}

Methods == JSON_RPC_METHODS \cup {"messages/send", "bogus"}

\* the values of body.get("jsonrpc") that are not "2.0": absent, or another
BadVersions == {None, "1.0"}

\* the Accept header as the list of its media ranges; absent is the empty list
AcceptHeaders == { <<>>, <<"application/json", "text/event-stream">> }

\* server.py:412-413: "text/event-stream" in accept_header
wants_sse(accept) == \E i \in DOMAIN accept : accept[i] = "text/event-stream"

\* parsed: request.json() gave a JSON object (server.py:417-418; anything else
\* raises inside the try block)
Request(parsed, jsonrpc, method, params, id, accept) ==
    [parsed |-> parsed, jsonrpc |-> jsonrpc, method |-> method, params |-> params,
     id |-> id, accept |-> accept, wants_sse |-> wants_sse(accept)]

\* what the endpoint returns: a JSONResponse with a result or an error member,
\* or an EventSourceResponse
JSONResponse(status_code, kind, code, message, result, id) ==
    [kind |-> kind, status_code |-> status_code, code |-> code, message |-> message,
     result |-> result, id |-> id, events |-> <<>>]

ErrorResponse(status_code, code, message, id) ==
    JSONResponse(status_code, "error", code, message, NoTask, id)

ResultResponse(result, id) == JSONResponse(200, "result", 0, None, result, id)

\* the event stream, with the events sent before the generator first suspends
EventSourceResponse(events) ==
    [JSONResponse(200, "stream", 0, None, NoTask, None) EXCEPT !.events = events]

\* an Answer that reports what is not an HTTPException as a parse error (a
\* variant C14 excludes)
Answer_parse_error(req, h) ==
    IF h.exc.type = None THEN ResultResponse(h.ret, req.id)
    ELSE IF h.exc.type = "HTTPException"
    THEN ErrorResponse(h.exc.status, -32000, h.exc.msg, req.id)
    ELSE ErrorResponse(200, -32700, h.exc.msg, req.id)

\* an Answer whose error responses carry a null id (a variant C15 excludes)
Answer_null_id(req, h) ==
    IF h.exc.type = None THEN ResultResponse(h.ret, req.id)
    ELSE IF h.exc.type = "HTTPException"
    THEN ErrorResponse(h.exc.status, -32000, h.exc.msg, None)
    ELSE ErrorResponse(200, -32000, h.exc.msg, None)

\* server.py:483-509: the handler's result as a response
Answer(req, h) ==
    IF h.exc.type = None THEN ResultResponse(h.ret, req.id)
    ELSE IF h.exc.type = "HTTPException"
    THEN ErrorResponse(h.exc.status, -32000, h.exc.msg, req.id)
    ELSE ErrorResponse(200, -32000, h.exc.msg, req.id)

\* the slot a new generator takes
FreeSlots(strs) == { s \in Slots : strs[s].pc = "idle" }

NextSlot(strs) == CHOOSE s \in FreeSlots(strs) : \A t \in FreeSlots(strs) : s <= t

Handled(reg, strs, rep) == [tasks |-> reg, streams |-> strs, reply |-> rep, asked |-> 0]

\* an endpoint whose tasks/cancel also stops the generators of the task (a
\* variant C18 excludes)
json_rpc_endpoint_interrupt(reg, strs, req, outcome) ==
    IF ~req.parsed
    THEN Handled(reg, strs, ErrorResponse(400, -32700, "Parse error", None))
    ELSE IF req.jsonrpc # "2.0"
    THEN Handled(reg, strs,
                 ErrorResponse(400, -32600, "Invalid Request: missing jsonrpc 2.0", req.id))
    ELSE IF req.method \in SSE_METHODS /\ req.wants_sse
    THEN LET st == stream_start(reg, req.params)
         IN  Handled(st.reg,
                     IF st.frame.pc = "yield_error" THEN strs
                     ELSE [strs EXCEPT ![NextSlot(strs)] = st.frame],
                     EventSourceResponse(st.frame.events))
    ELSE IF req.method \notin JSON_RPC_METHODS
    THEN Handled(reg, strs, ErrorResponse(200, -32601, "Method not found", req.id))
    ELSE LET h == CASE req.method = "tasks/send" -> handle_tasks_send(reg, req.params, outcome)
                    [] req.method = "tasks/get" -> handle_tasks_get(reg, req.params)
                    [] req.method = "tasks/cancel" -> handle_tasks_cancel(reg, req.params)
             stopped == [s \in Slots |->
                            IF req.method = "tasks/cancel" /\ strs[s].task_id = req.params.id
                            THEN IdleFrame ELSE strs[s]]
         IN  Handled(h.reg, stopped, Answer(req, h))

\* an endpoint that dispatches without looking at jsonrpc (a variant C13
\* excludes)
json_rpc_endpoint_lenient(reg, strs, req, outcome) ==
    IF ~req.parsed
    THEN Handled(reg, strs, ErrorResponse(400, -32700, "Parse error", None))
    ELSE IF req.method \in SSE_METHODS /\ req.wants_sse
    THEN LET st == stream_start(reg, req.params)
         IN  Handled(st.reg,
                     IF st.frame.pc = "yield_error" THEN strs
                     ELSE [strs EXCEPT ![NextSlot(strs)] = st.frame],
                     EventSourceResponse(st.frame.events))
    ELSE IF req.method \notin JSON_RPC_METHODS
    THEN Handled(reg, strs, ErrorResponse(200, -32601, "Method not found", req.id))
    ELSE LET h == CASE req.method = "tasks/send" -> handle_tasks_send(reg, req.params, outcome)
                    [] req.method = "tasks/get" -> handle_tasks_get(reg, req.params)
                    [] req.method = "tasks/cancel" -> handle_tasks_cancel(reg, req.params)
         IN  Handled(h.reg, strs, Answer(req, h))

\* json_rpc_endpoint up to its response; for a stream, up to the generator's
\* first suspension.  A generator that raises before its first yield has sent
\* its one error event and is over (server.py:459-465): it takes no slot.
json_rpc_endpoint(reg, strs, req, outcome) ==
    IF ~req.parsed
    THEN Handled(reg, strs, ErrorResponse(400, -32700, "Parse error", None))
    ELSE IF req.jsonrpc # "2.0"
    THEN Handled(reg, strs,
                 ErrorResponse(400, -32600, "Invalid Request: missing jsonrpc 2.0", req.id))
    ELSE IF req.method \in SSE_METHODS /\ req.wants_sse
    THEN LET st == stream_start(reg, req.params)
         IN  Handled(st.reg,
                     IF st.frame.pc = "yield_error" THEN strs
                     ELSE [strs EXCEPT ![NextSlot(strs)] = st.frame],
                     EventSourceResponse(st.frame.events))
    ELSE IF req.method \notin JSON_RPC_METHODS
    THEN Handled(reg, strs, ErrorResponse(200, -32601, "Method not found", req.id))
    ELSE LET h == CASE req.method = "tasks/send" -> handle_tasks_send(reg, req.params, outcome)
                    [] req.method = "tasks/get" -> handle_tasks_get(reg, req.params)
                    [] req.method = "tasks/cancel" -> handle_tasks_cancel(reg, req.params)
         IN  [Handled(h.reg, strs, Answer(req, h)) EXCEPT !.asked = h.asked]

-----------------------------------------------------------------------------
(* The requests tried *)

\* whether the request makes the server create a task
IsSend(req) ==
    /\ req.parsed /\ req.jsonrpc = "2.0" /\ req.params.obj /\ req.params.id # IntId
    /\ (req.method \in SSE_METHODS /\ req.wants_sse) \/ req.method = "tasks/send"

\* whether the request starts a generator
IsStream(req) == IsSend(req) /\ req.wants_sse

\* the responder is only called on the loop by a non-streaming send that gets
\* to server.py:313
AsksResponder(req) ==
    IsSend(req) /\ ~req.wants_sse /\ req.params.message.shape # "str"

\* the params tried with a method: a message only matters to a send, an id
\* only to a method that has a handler; what the Accept header does to
\* tasks/get and tasks/cancel, and what the other streaming methods do, is
\* tried with one id
ParamsOf(method, sse) ==
    IF method = "tasks/send"
    THEN { Params(i, m) : i \in CallerIds \cup {None, IntId}, m \in SendMessages } \cup {BadParams}
    ELSE IF method \in SSE_METHODS /\ sse
    THEN { Params(None, TwoTexts), BadParams }
    ELSE IF method \in JSON_RPC_METHODS /\ ~sse
    THEN { Params(i, NoMessage) : i \in IdVals } \cup {BadParams}
    ELSE { Params("a", NoMessage) }

\* the request ids tried with a method: an event stream echoes no id
RequestIdsOf(method, sse) ==
    IF method \in SSE_METHODS /\ sse THEN {"req-1"} ELSE RequestIds

Requests ==
    { Request(FALSE, None, None, BadParams, None, a) : a \in AcceptHeaders }
    \cup { Request(TRUE, v, m, Params("a", NoMessage), i, a) :
             v \in BadVersions, m \in {"tasks/send", "tasks/cancel", "bogus"},
             i \in RequestIds, a \in AcceptHeaders }
    \cup UNION { { Request(TRUE, "2.0", m, p, i, a) :
                     p \in ParamsOf(m, wants_sse(a)), i \in RequestIdsOf(m, wants_sse(a)) } :
                   m \in Methods, a \in AcceptHeaders }

\* what the responder is let do in answer to a request: every outcome when it
\* is called with the message of two texts, one outcome with the other
\* messages (it does not read the message), nothing when it is not called
OutcomesOf(req) ==
    IF ~AsksResponder(req) THEN {Returns(<<>>)}
    ELSE IF req.params.message = TwoTexts THEN Outcomes
    ELSE {Returns(<<Item(1, TRUE)>>)}

-----------------------------------------------------------------------------
(* kagent-mlflow-response-agent/agent.py: LlamaStackAgent *)

\* client.responses.create calls of one behaviour
MaxCalls == 3

\* the ids Llama Stack gives its responses; None is a response without an id
ResponseIds == {"resp_1", "resp_2", None}

\* str(e) of what client.responses.create raises, as characters: a server
\* error, a client error, a timeout that names 1500 ms, a text with 5, 0 and 0
\* apart
ErrorTexts ==
    { <<"5", "0", "0">>, <<"4", "0", "4">>, <<"1", "5", "0", "0", "m", "s">>, <<"5", "0", " ", "0">> }

\* str(e) when the output of a response cannot be read (agent.py:256-280)
OutputErrText == <<"N", "o", "n", "e">>

\* Python's  sub in text
Contains(sub, text) ==
    \E i \in 1..(Len(text) - Len(sub) + 1) : SubSeq(text, i, i + Len(sub) - 1) = sub

\* what client.responses.create does: it returns a response, whose output can
\* then be read or not, or it raises
Created(id, readable) == [created |-> TRUE, id |-> id, readable |-> readable, error |-> NoText]

CreateRaises(text) == [created |-> FALSE, id |-> None, readable |-> FALSE, error |-> text]

Creates ==
    { Created(id, readable) : id \in ResponseIds, readable \in BOOLEAN }
    \cup { CreateRaises(text) : text \in ErrorTexts }

\* agent.py:243-244: kwargs carries previous_response_id when the stored id is
\* truthy
previous_response_id(stored) == IF stored \in {None, ""} THEN None ELSE stored

\* a predict_stream that forgets the stored id whenever the call fails (a
\* variant C26 excludes)
LlamaStackAgent_predict_stream_forget(stored, create) ==
    LET error == IF create.created
                 THEN (IF create.readable THEN NoText ELSE OutputErrText)
                 ELSE create.error
    IN  [previous_response_id |-> previous_response_id(stored),
         last_response_id |-> IF error # NoText THEN None ELSE create.id,
         create |-> create, error |-> error]

\* LlamaStackAgent.predict_stream, agent.py:221-311 (predict, 210-219, drains
\* it): the call carries the stored id; the id of a response is stored as soon
\* as create returns (250); the except block clears the stored id when "500" is
\* in the error text (302-303)
LlamaStackAgent_predict_stream(stored, create) ==
    LET error == IF create.created
                 THEN (IF create.readable THEN NoText ELSE OutputErrText)
                 ELSE create.error
        after_create == IF create.created THEN create.id ELSE stored
    IN  [previous_response_id |-> previous_response_id(stored),
         last_response_id |-> IF error # NoText /\ Contains(<<"5", "0", "0">>, error)
                              THEN None ELSE after_create,
         create |-> create, error |-> error]

\* agent.py:141
InitAgent ==
    /\ last_response_id = None
    /\ upstream_calls = <<>>

-----------------------------------------------------------------------------
(* POST /v1/chat/completions of the two adapters and their MLflow runs:       *)
(* kagent-mlflow-response-agent/server.py:75-179, kagent-mlflow-agent/app.py: *)
(* 142-263                                                                    *)

\* mlflow.start_run calls of one behaviour
MaxRuns == 3

\* requests in flight at once (kagent-mlflow-agent awaits Llama Stack)
ChatSlots == 1..2

\* the local variable run when no run was started
NoRun == 0

Programs == {"kagent-mlflow-response-agent", "kagent-mlflow-agent"}

\* tracking: MLFLOW_TRACKING_URI is not empty
Deployment(program, tracking) == [program |-> program, tracking |-> tracking]

\* what goes wrong while a request is handled: nothing; an MLflow call between
\* start_run and the try block raises ("tag": mlflow.set_tag or log_param
\* cannot reach the tracking server, or body["tools"] is not a list of
\* objects, server.py:111-114); the try block raises ("body"); the try block
\* raises and mlflow.set_tag in the except block raises too ("error_tag")
Faults == {"none", "tag", "body", "error_tag"}

\* a POST /v1/chat/completions: whether messages is a non-empty list, whether
\* the last user text is not empty (app.py:72), and what goes wrong
ChatRequest(has_messages, has_query, fault) ==
    [has_messages |-> has_messages, has_query |-> has_query, fault |-> fault]

ChatRequests ==
    { ChatRequest(m, q, f) : m \in BOOLEAN, q \in BOOLEAN, f \in Faults }

\* the MLflow fluent API's state: the stack of active runs, the number of runs
\* started and the runs ended
NoRuns == [active |-> <<>>, started |-> 0, finished |-> {}]

\* mlflow.start_run without nested=True raises when a run is active
start_run(ml) ==
    IF ml.active # <<>>
    THEN [ok |-> FALSE, ml |-> ml, run |-> NoRun]
    ELSE [ok |-> TRUE, run |-> ml.started + 1,
          ml |-> [ml EXCEPT !.started = @ + 1, !.active = <<ml.started + 1>>]]

\* mlflow.end_run ends the run on top of the stack, if any
end_run(ml) ==
    IF ml.active = <<>> THEN ml
    ELSE [ml EXCEPT !.active = SubSeq(@, 1, Len(@) - 1),
                    !.finished = @ \cup {ml.active[Len(ml.active)]}]

\* a coroutine of chat_completions: where it is suspended, its local run and
\* its request
ChatFrame(pc, run, req) == [pc |-> pc, run |-> run, req |-> req]

IdleChat == ChatFrame("idle", NoRun, ChatRequest(FALSE, FALSE, "none"))

\* a request that has finished: the HTTP status sent (0: the client had gone),
\* the run it started and its request
Finished(status, run, req) == [status |-> status, run |-> run, req |-> req]

NoChat == Finished(0, NoRun, ChatRequest(FALSE, FALSE, "none"))

\* what handling a request does: the MLflow state it leaves, and either the
\* frame it is suspended in or what it finished with
Suspend(ml, frame) == [ml |-> ml, frame |-> frame, done |-> NoChat, finished |-> FALSE]

Finish(ml, status, run, req) ==
    [ml |-> ml, frame |-> IdleChat, done |-> Finished(status, run, req), finished |-> TRUE]

\* server.py:177-179 and app.py:261-263:  finally: if run: mlflow.end_run()
finally(ml, status, run, req) ==
    Finish(IF run # NoRun THEN end_run(ml) ELSE ml, status, run, req)

\* server.py:95-114 and app.py:183-192: start the run and tag it, before the
\* try block.  ok: the try block is entered
start_and_tag(ml, tracking, req) ==
    IF ~tracking THEN [ok |-> TRUE, ml |-> ml, run |-> NoRun]
    ELSE LET st == start_run(ml)
         IN  IF ~st.ok THEN [ok |-> FALSE, ml |-> st.ml, run |-> NoRun]
             ELSE [ok |-> req.fault # "tag", ml |-> st.ml, run |-> st.run]

\* kagent-mlflow-response-agent/server.py:75-179: chat_completions awaits
\* nothing after request.json(); agent.predict is a blocking call
response_agent_chat_completions(ml, tracking, req) ==
    IF ~req.has_messages THEN Finish(ml, 400, NoRun, req)
    ELSE LET t == start_and_tag(ml, tracking, req)
         IN  IF ~t.ok THEN Finish(t.ml, 500, t.run, req)
             ELSE finally(t.ml, IF req.fault \in {"body", "error_tag"} THEN 500 ELSE 200,
                          t.run, req)

\* kagent-mlflow-agent/app.py:142-196: chat_completions up to its first await on
\* Llama Stack: the vector store search, or the chat completion when the query
\* is empty (app.py:72-73)
agent_chat_completions(ml, tracking, req) ==
    IF ~req.has_messages THEN Finish(ml, 400, NoRun, req)
    ELSE LET t == start_and_tag(ml, tracking, req)
         IN  IF ~t.ok THEN Finish(t.ml, 500, t.run, req)
             ELSE Suspend(t.ml, ChatFrame(IF req.has_query THEN "await_search" ELSE "await_chat",
                                          t.run, req))

\* what Llama Stack answers to the adapter: a 2xx, an HTTP error status
\* (raise_for_status), or no answer (another exception)
Answers == {"ok", "http_status", "exception"}

\* app.py:196-263: the coroutine resumed with the answer it awaited
agent_resume(ml, frame, answer) ==
    IF answer = "http_status" THEN finally(ml, 502, frame.run, frame.req)
    ELSE IF answer = "exception" THEN finally(ml, 500, frame.run, frame.req)
    ELSE IF frame.pc = "await_search" THEN Suspend(ml, [frame EXCEPT !.pc = "await_chat"])
    ELSE finally(ml, IF frame.req.fault \in {"body", "error_tag"} THEN 500 ELSE 200,
                 frame.run, frame.req)

InitRuns ==
    /\ mlflow = NoRuns
    /\ chat = [s \in ChatSlots |-> IdleChat]
    /\ last_chat = NoChat

-----------------------------------------------------------------------------
(* The state machine *)

\* the record of the task the request names, as it was before the request
RecordOf(reg, task_id) == IF task_id \in DOMAIN reg THEN reg[task_id] ELSE NoTask

\* the ids whose record the request created or changed
Touched(before, after) ==
    { i \in DOMAIN after : i \notin DOMAIN before \/ before[i] # after[i] }

\* reply: the request just handled (req), the response to it, and for the
\* properties below the record the request named as it was before (before), the
\* ids whose records the request wrote (touched), how many times its handler
\* called the responder on the loop (asked), and what the responder was handed
\* (request) and did (outcome)
Reply(req, response, before, touched, request, asked, outcome) ==
    [req |-> req, response |-> response, before |-> before, touched |-> touched,
     request |-> request, asked |-> asked, outcome |-> outcome]

NoReply ==
    Reply(Request(FALSE, None, None, BadParams, None, <<>>),
          JSONResponse(0, None, 0, None, NoTask, None), NoTask, {}, NoRequest, 0, Returns(<<>>))

InitA2A ==
    /\ tasks = <<>>
    /\ reply = NoReply
    /\ streams = [s \in Slots |-> IdleFrame]
    /\ sends = 0

Init == InitA2A /\ InitAgent /\ InitRuns /\ deployment = Deployment("kagent-mlflow-agent", TRUE)

\* one POST / handled up to its response (or, for a stream, its first event)
Post ==
    /\ reply = NoReply
    /\ \E req \in Requests :
        /\ IsSend(req) => sends < MaxSends
        /\ IsStream(req) => FreeSlots(streams) # {}
        /\ sends' = IF IsSend(req) THEN sends + 1 ELSE sends
        /\ \E outcome \in OutcomesOf(req) :
               LET r == json_rpc_endpoint(tasks, streams, req, outcome)
               IN  /\ tasks' = r.tasks
                   /\ streams' = r.streams
                   /\ reply' = Reply(req, r.reply, RecordOf(tasks, req.params.id),
                                      Touched(tasks, r.tasks),
                                      IF AsksResponder(req)
                                      THEN ResponsesAgentRequest(req.params.message)
                                      ELSE NoRequest,
                                      r.asked, outcome)
    /\ UNCHANGED <<agent_vars, runs_vars>>

\* the response has gone out; the server is ready for the next request
Deliver ==
    /\ reply # NoReply
    /\ reply' = NoReply
    /\ UNCHANGED <<tasks, streams, sends, agent_vars, runs_vars>>

\* the client takes the next event: the generator runs to its next suspension
StreamNext(s) ==
    /\ reply = NoReply
    /\ streams[s].pc \in AtYield
    /\ LET st == stream_next(tasks, streams[s])
       IN  /\ tasks' = st.reg
           /\ streams' = [streams EXCEPT ![s] = st.frame]
    /\ UNCHANGED <<reply, sends, agent_vars, runs_vars>>

\* the executor thread finishes the responder call and the generator resumes
ExecutorDone(s) ==
    /\ reply = NoReply
    /\ streams[s].pc = "await_executor"
    /\ \E outcome \in Outcomes :
           LET st == stream_resume(tasks, streams[s], outcome)
           IN  /\ tasks' = st.reg
               /\ streams' = [streams EXCEPT ![s] = st.frame]
    /\ UNCHANGED <<reply, sends, agent_vars, runs_vars>>

\* the client goes away: the generator is cancelled where it is suspended and
\* runs no further statement (neither CancelledError nor GeneratorExit is an
\* Exception, so the except block at server.py:269 does not run)
Disconnect(s) ==
    /\ reply = NoReply
    /\ streams[s].pc \in Suspended
    /\ streams' = [streams EXCEPT ![s] = IdleFrame]
    /\ UNCHANGED <<tasks, reply, sends, agent_vars, runs_vars>>

Next ==
    \/ Post
    \/ Deliver
    \/ \E s \in Slots : StreamNext(s)
    \/ \E s \in Slots : ExecutorDone(s)
    \/ \E s \in Slots : Disconnect(s)

Spec == Init /\ [][Next]_vars

-----------------------------------------------------------------------------
(* The response agent: one upstream call per agent.predict *)

\* agent.predict(request), called by server.py:123 on the event loop: one
\* client.responses.create call
Predict ==
    /\ Len(upstream_calls) < MaxCalls
    /\ \E create \in Creates :
           LET call == LlamaStackAgent_predict_stream(last_response_id, create)
           IN  /\ last_response_id' = call.last_response_id
               /\ upstream_calls' = Append(upstream_calls, call)
    /\ UNCHANGED <<a2a_vars, runs_vars>>

NextAgent == Predict

SpecAgent == Init /\ [][NextAgent]_vars

-----------------------------------------------------------------------------
(* The adapters: POST /v1/chat/completions *)

InitAdapters ==
    /\ InitA2A /\ InitAgent /\ InitRuns
    /\ deployment \in { Deployment(p, t) : p \in Programs, t \in BOOLEAN }

\* a request arrives and is handled up to its response or its first await
ChatCompletions(s) ==
    /\ chat[s].pc = "idle"
    /\ mlflow.started < MaxRuns
    /\ \E req \in ChatRequests :
           LET h == IF deployment.program = "kagent-mlflow-response-agent"
                    THEN response_agent_chat_completions(mlflow, deployment.tracking, req)
                    ELSE agent_chat_completions(mlflow, deployment.tracking, req)
           IN  /\ mlflow' = h.ml
               /\ chat' = [chat EXCEPT ![s] = h.frame]
               /\ last_chat' = IF h.finished THEN h.done ELSE last_chat
    /\ UNCHANGED <<a2a_vars, agent_vars, deployment>>

\* Llama Stack answers the request a coroutine awaits
Answered(s) ==
    /\ chat[s].pc \in {"await_search", "await_chat"}
    /\ \E answer \in Answers :
           LET h == agent_resume(mlflow, chat[s], answer)
           IN  /\ mlflow' = h.ml
               /\ chat' = [chat EXCEPT ![s] = h.frame]
               /\ last_chat' = IF h.finished THEN h.done ELSE last_chat
    /\ UNCHANGED <<a2a_vars, agent_vars, deployment>>

\* the client goes away: the coroutine is cancelled at its await and its
\* finally block runs
ChatDisconnect(s) ==
    /\ chat[s].pc \in {"await_search", "await_chat"}
    /\ LET h == finally(mlflow, 0, chat[s].run, chat[s].req)
       IN  /\ mlflow' = h.ml
           /\ chat' = [chat EXCEPT ![s] = h.frame]
           /\ last_chat' = h.done
    /\ UNCHANGED <<a2a_vars, agent_vars, deployment>>

NextRuns ==
    \/ \E s \in ChatSlots : ChatCompletions(s)
    \/ \E s \in ChatSlots : Answered(s)
    \/ \E s \in ChatSlots : ChatDisconnect(s)

SpecRuns == InitAdapters /\ [][NextRuns]_vars

-----------------------------------------------------------------------------
(* Properties.  A state with reply # NoReply is the state right after the    *)
(* request reply.req was handled.                                              *)

\* the request just handled passed the jsonrpc check and reached dispatch
Dispatched == reply.req.parsed /\ reply.req.jsonrpc = "2.0"

\* ... and was a tasks/send answered without streaming, params a JSON object
PlainSend ==
    /\ Dispatched /\ reply.req.method = "tasks/send" /\ ~reply.req.wants_sse
    /\ reply.req.params.obj

\* ... and was the given method with params a JSON object
Called(method) == Dispatched /\ reply.req.method = method /\ reply.req.params.obj

\* ... and made the server call the responder on the loop (server.py:313)
Asked == PlainSend /\ AsksResponder(reply.req)

Result == reply.response.result

\* C1: a non-streaming tasks/send whose params is a JSON object never returns a
\* task record in submitted or working: every record returned as the result is
\* completed or failed, and a result is returned whenever the id is a string or
\* absent, whatever the responder did.
C1_SendResultIsTerminal ==
    PlainSend =>
        /\ reply.response.kind = "result" => Result.status.state \in {"completed", "failed"}
        /\ reply.req.params.id # IntId => reply.response.kind = "result"

\* the responder returned no output item and the send answered completed
C1_Witness ==
    /\ Asked /\ reply.outcome = Returns(<<>>)
    /\ reply.response.kind = "result" /\ Result.status.state = "completed"

\* C2: when the responder raises with message M during a non-streaming
\* tasks/send, the record ends failed with message M, and the reply is an HTTP
\* 200 response that carries this record as its result and no error.
C2_RaiseIsSwallowed ==
    (Asked /\ reply.outcome.raises) =>
        /\ reply.response.kind = "result"
        /\ reply.response.status_code = 200
        /\ Result.status = TaskStatus("failed", reply.outcome.msg)
        /\ Result.id \in DOMAIN tasks /\ tasks[Result.id] = Result

C2_Witness ==
    /\ Asked /\ reply.outcome = Raises("upstream down")
    /\ Result.status.message = "upstream down"

\* C3: tasks/get or tasks/cancel with an id that is not in the registry is
\* answered with JSON-RPC error -32000, and the registry is as before: no
\* record is written, none is created for that id.
C3_UnknownIdIsError ==
    ((Called("tasks/get") \/ Called("tasks/cancel")) /\ reply.before = NoTask) =>
        /\ reply.response.kind = "error"
        /\ reply.response.code = -32000
        /\ reply.touched = {}
        /\ reply.req.params.id \notin DOMAIN tasks

\* a get of an unknown id while the registry holds other tasks
C3_Witness ==
    /\ Called("tasks/get") /\ reply.before = NoTask /\ reply.req.params.id = "task_1"
    /\ DOMAIN tasks # {}

TerminalStates == {"completed", "failed", "canceled"}

\* C4 (as claimed): once a record's status is completed, failed or canceled, no
\* step changes that record's status.
C4_TerminalIsFinal ==
    [][\A i \in DOMAIN tasks :
          tasks[i].status.state \in TerminalStates =>
              (i \in DOMAIN tasks' /\ tasks'[i].status = tasks[i].status)]_vars

\* a successful stream's events: working, then at least min_updates artifact
\* updates, then one artifact done, then task.complete
SuccessEvents(f, min_updates) ==
    LET n == Len(f.events)
    IN  /\ n >= 3 + min_updates
        /\ f.events[1] = StatusUpdate(f.task_id, "working", None)
        /\ \A j \in 2..(n - 2) : f.events[j].type = "task.artifact.update"
        /\ f.events[n - 1].type = "task.artifact.done"
        /\ f.events[n] = TaskComplete(f.task_id)

\* C5 (as claimed): a streaming send whose responder succeeds has emitted, when
\* its last event is out: the working status, one or more artifact updates, one
\* artifact done, one task.complete.
C5_OneOrMoreUpdates ==
    \A s \in Slots : streams[s].pc = "yield_complete" => SuccessEvents(streams[s], 1)

\* C5 (amended): ... the working status, then one artifact update per output
\* item of the responder (none when it returned no item), then one artifact done,
\* then one task.complete as the last event.
C5_EventsInOrder ==
    \A s \in Slots :
        streams[s].pc = "yield_complete" =>
            /\ SuccessEvents(streams[s], 0)
            /\ Len(streams[s].events) = 3 + Len(streams[s].items)

\* a stream has sent task.complete with an artifact update before it
C5_Witness ==
    \E s \in Slots :
        /\ streams[s].pc = "yield_complete"
        /\ Len(streams[s].items) = 1
        /\ streams[s].events[2] = ArtifactUpdate(streams[s].task_id, <<"A">>)

\* the pcs of a generator that has yet to write its task's terminal status
Unfinished == {"yield_working", "await_executor", "yield_update"}

\* C6 (as claimed): a streaming send's record reaches a terminal state even
\* when the client goes away: no record is working without a generator that
\* will still finish it.
C6_WorkingWillFinish ==
    \A i \in DOMAIN tasks :
        tasks[i].status.state = "working" =>
            \E s \in Slots : streams[s].task_id = i /\ streams[s].pc \in Unfinished

\* C7: tasks/cancel on an existing id returns a result in state canceled and no
\* error, on the first call and on a second one; the second call leaves the
\* record exactly as the first left it.
C7_CancelIsIdempotent ==
    (Called("tasks/cancel") /\ reply.before # NoTask) =>
        /\ reply.response.kind = "result"
        /\ Result.status.state = "canceled"
        /\ reply.before.status.state = "canceled" => (Result = reply.before /\ reply.touched = {})

\* a cancel of a task that a cancel had canceled before
C7_Witness ==
    /\ Called("tasks/cancel") /\ reply.before.status.state = "canceled"
    /\ reply.response.kind = "result"

\* C8: tasks/cancel on an existing id sets the record's state to canceled
\* whatever state it was in, returns the updated record, and leaves the record's
\* id and artifacts as they were.
C8_CancelOverrides ==
    (Called("tasks/cancel") /\ reply.before # NoTask) =>
        LET id == reply.req.params.id
        IN  /\ tasks[id].status.state = "canceled"
            /\ tasks[id].id = reply.before.id
            /\ tasks[id].artifacts = reply.before.artifacts
            /\ reply.response.kind = "result" /\ Result = tasks[id]
            /\ reply.touched \subseteq {id}

\* a cancel of a completed task that holds an artifact
C8_Witness ==
    /\ Called("tasks/cancel") /\ reply.before.status.state = "completed"
    /\ reply.before.artifacts # NoArtifacts
    /\ Result.status.state = "canceled"

\* C9: tasks/get on an existing id returns the stored record and writes nothing:
\* no record of the registry differs from what it was before the call.
C9_GetReadsOnly ==
    (Called("tasks/get") /\ reply.before # NoTask) =>
        /\ reply.response.kind = "result"
        /\ Result = reply.before
        /\ tasks[reply.req.params.id] = reply.before
        /\ reply.touched = {}

\* a get of a completed task while another task exists
C9_Witness ==
    /\ Called("tasks/get") /\ reply.before.status.state = "completed"
    /\ Cardinality(DOMAIN tasks) = 2

\* C10: after a non-streaming tasks/send whose responder returned, the record is
\* completed with a null message and holds exactly one artifact, named
\* "response", with one text part; when the responder returned the text T this
\* part's text is T.  This holds as well when the id was in the registry before.
C10_OneResponseArtifact ==
    (Asked /\ ~reply.outcome.raises) =>
        /\ reply.response.kind = "result"
        /\ Result.status = TaskStatus("completed", None)
        /\ Len(Result.artifacts) = 1
        /\ Result.artifacts[1].name = "response"
        /\ Len(Result.artifacts[1].parts) = 1
        /\ Result.artifacts[1].parts[1].type = "text"
        /\ (Len(reply.outcome.items) = 1 /\ reply.outcome.items[1].has_text) =>
               Result.artifacts[1].parts[1].text = reply.outcome.items[1].text
        /\ tasks[Result.id] = Result

\* a send that returned text for an id whose earlier record held an artifact
C10_Witness ==
    /\ Asked /\ reply.outcome = Returns(<<Item(1, TRUE)>>)
    /\ reply.before.artifacts # NoArtifacts
    /\ Result.artifacts[1].parts[1].text = <<"A">>

\* the texts of the parts whose kind or type is "text", joined in list order
\* with nothing between them; a message of the model has at most two parts
JoinedText(parts) ==
    LET texts == SelectSeq(parts, LAMBDA p : p.kind = "text" \/ p.type = "text")
    IN  CASE Len(texts) = 0 -> <<>>
          [] Len(texts) = 1 -> texts[1].text
          [] Len(texts) = 2 -> <<texts[1].text[1], texts[2].text[1]>>

\* C11: the content of the request handed to the responder, by a non-streaming
\* send and by a streaming one, is the text of every part of
\* params.message.parts whose kind or type is "text", joined in list order with
\* no separator; other parts add nothing (A then B gives AB).
C11_ContentIsJoinedText ==
    /\ Asked => reply.request.content = JoinedText(reply.req.params.message.parts)
    /\ \A s \in Slots :
           streams[s].pc = "await_executor" =>
               streams[s].request.content = JoinedText(streams[s].message.parts)

\* a send with a text part A (by kind) and a text part B (by type) handed AB to
\* the responder, while a stream whose message has an image part A and a text
\* part B waits on a responder that was handed B
C11_Witness ==
    /\ Asked /\ Len(reply.req.params.message.parts) = 2
    /\ reply.req.params.message.parts[2].type = "text"
    /\ reply.request.content = <<"A", "B">>
    /\ \E s \in Slots :
           /\ streams[s].pc = "await_executor"
           /\ Len(streams[s].message.parts) = 2
           /\ streams[s].message.parts[1].kind = "image"
           /\ streams[s].request.content = <<"B">>

\* the request just handled was answered with the JSON-RPC error of this code
ErrorCode(code) == reply.response.kind = "error" /\ reply.response.code = code

\* the request just handled wrote no record and did not reach the responder
NothingDone == reply.touched = {} /\ reply.request = NoRequest

\* C12 (as claimed): every request with jsonrpc "2.0" whose method is not one of
\* tasks/send, tasks/get, tasks/cancel is answered with error -32601 and the
\* request's id, whatever its Accept header, and no record is written and the
\* responder is not called.
C12_UnknownMethodIsError ==
    (Dispatched /\ reply.req.method \notin {"tasks/send", "tasks/get", "tasks/cancel"}) =>
        /\ ErrorCode(-32601)
        /\ reply.response.id = reply.req.id
        /\ NothingDone

\* C13: a request whose body is a JSON object with jsonrpc absent or not "2.0"
\* is answered with error -32600 whatever its method and Accept header, and
\* nothing is dispatched: no stream is opened, no record is written and the
\* responder is not called.
C13_InvalidRequestIsRejected ==
    (reply.req.parsed /\ reply.req.jsonrpc # "2.0") =>
        /\ ErrorCode(-32600)
        /\ NothingDone
        /\ reply.outcome = Returns(<<>>)

\* a tasks/cancel with jsonrpc "1.0" that names a completed task and asks for a
\* stream was rejected, and the task is still completed
C13_Witness ==
    /\ reply.req.parsed /\ reply.req.jsonrpc = "1.0" /\ reply.req.wants_sse
    /\ reply.req.method = "tasks/cancel"
    /\ reply.before.status.state = "completed"
    /\ tasks[reply.req.params.id].status.state = "completed"

\* C14: a request whose body is not a JSON object is answered with error -32700
\* and id null, and no record is written; a request whose body is a JSON
\* object is never answered with -32700.
C14_ParseError ==
    reply # NoReply =>
        /\ ~reply.req.parsed =>
               (ErrorCode(-32700) /\ reply.response.id = None /\ NothingDone)
        /\ reply.req.parsed => reply.response.code # -32700

\* an unparseable body was answered while the registry holds a task
C14_Witness ==
    /\ reply # NoReply /\ ~reply.req.parsed /\ reply.response.code = -32700
    /\ DOMAIN tasks # {}

\* C15: every JSON-RPC response object to a request whose body is a JSON object,
\* result or error, carries the request's id, and null when the request has
\* none.
C15_IdIsEchoed ==
    (reply.req.parsed /\ reply.response.kind \in {"result", "error"}) =>
        reply.response.id = reply.req.id

\* a not-found error to a tasks/get that carries an id
C15_Witness ==
    /\ Called("tasks/get") /\ ErrorCode(-32000)
    /\ reply.req.id = "req-1" /\ reply.response.id = "req-1"

\* C16: tasks/send is answered with an event stream exactly when the Accept
\* header contains text/event-stream, and with one JSON-RPC response object
\* otherwise; tasks/get and tasks/cancel are always answered with one JSON-RPC
\* response object.
C16_StreamIffAccept ==
    Dispatched =>
        /\ reply.req.method = "tasks/send" =>
               /\ reply.response.kind = "stream"
                      <=> (\E i \in DOMAIN reply.req.accept : reply.req.accept[i] = "text/event-stream")
               /\ reply.response.kind \in {"stream", "result", "error"}
        /\ reply.req.method \in {"tasks/get", "tasks/cancel"} =>
               reply.response.kind \in {"result", "error"}

\* a tasks/send that accepts text/event-stream was answered with a stream that
\* begins with the working status of its task
C16_Witness ==
    /\ Called("tasks/send") /\ reply.req.accept = <<"application/json", "text/event-stream">>
    /\ reply.response.kind = "stream"
    /\ reply.response.events = <<StatusUpdate("a", "working", None)>>

\* a generator that has yet to write the terminal status of this task
InFlight(i) == \E s \in Slots : streams[s].task_id = i /\ streams[s].pc \in Unfinished

\* C17 (as claimed): when two sends with the same caller-supplied id overlap,
\* then once both have finished the record of that id holds what the send that
\* finished last wrote and nothing of the other: a send writes one status and,
\* when it completes, one artifact, so the record has at most one artifact, and
\* none when it is failed.
C17_LastWriterWins ==
    \A i \in DOMAIN tasks :
        ~InFlight(i) =>
            /\ Len(tasks[i].artifacts) <= 1
            /\ tasks[i].status.state = "failed" => tasks[i].artifacts = NoArtifacts

\* the step is the handling of a tasks/cancel that reached its handler
CancelStep ==
    /\ reply = NoReply /\ reply' # NoReply
    /\ reply'.req.parsed /\ reply'.req.jsonrpc = "2.0"
    /\ reply'.req.method = "tasks/cancel"

\* C18: a tasks/cancel changes nothing but the status of the record it names:
\* every generator, and so one that waits on the responder for the same id,
\* is left as it was; and a generator that waits on the responder while its
\* record is canceled takes what the responder returns and goes on to its
\* artifact events as it would otherwise.
C18_CancelOnlyMarks ==
    /\ [][CancelStep =>
              /\ streams' = streams
              /\ DOMAIN tasks' = DOMAIN tasks
              /\ \A i \in DOMAIN tasks :
                     /\ tasks'[i].id = tasks[i].id
                     /\ tasks'[i].artifacts = tasks[i].artifacts
                     /\ i # reply'.req.params.id => tasks'[i] = tasks[i]]_vars
    /\ [](\A s \in Slots :
              (/\ streams[s].pc = "await_executor"
               /\ streams[s].task_id \in DOMAIN tasks
               /\ tasks[streams[s].task_id].status.state = "canceled") =>
                  \A outcome \in Outcomes :
                      ~outcome.raises =>
                          LET st == stream_resume(tasks, streams[s], outcome)
                          IN  /\ st.frame.items = outcome.items
                              /\ st.frame.pc \in {"yield_update", "yield_artifact_done"}
                              /\ Len(st.frame.events) = Len(streams[s].events) + 1)

\* a tasks/cancel was answered for the id of a generator that waits on the
\* responder: the record is canceled and the generator still waits
C18_Witness ==
    /\ Called("tasks/cancel") /\ reply.response.kind = "result"
    /\ \E s \in Slots :
           /\ streams[s].task_id = reply.req.params.id
           /\ streams[s].pc = "await_executor"
           /\ tasks[streams[s].task_id].status.state = "canceled"

\* C19 (as claimed): every change of a record's status follows the lifecycle.
\* A request creates a record (submitted, then working) or cancels it; any
\* other change of a status is made by a generator and is the change from
\* working to completed or to failed.
C19_Lifecycle ==
    [][\A i \in DOMAIN tasks :
           (reply' = NoReply /\ i \in DOMAIN tasks' /\ tasks'[i].status # tasks[i].status) =>
               /\ tasks[i].status.state = "working"
               /\ tasks'[i].status.state \in {"completed", "failed"}]_vars

\* C20 (as claimed): when the Llama Stack call of the reference responder fails
\* during a tasks/send, at session creation or during the turn, the record
\* ends failed with the error text as its message, and not completed.
C20_UpstreamFailureIsFailed ==
    (Asked /\ reply.outcome.upstream.step \in {"session", "turn"}) =>
        Result.status = TaskStatus("failed", reply.outcome.upstream.msg)

\* a terminal event: task.complete, or a status update with state failed
Terminal(e) ==
    e.type = "task.complete" \/ (e.type = "task.status.update" /\ e.state = "failed")

\* the events end with a terminal event and hold no other
EndsWithOneTerminal(events) ==
    /\ Len(events) >= 1
    /\ Terminal(events[Len(events)])
    /\ \A j \in 1..(Len(events) - 1) : ~Terminal(events[j])

\* the streams that have sent their last event end with one terminal event,
\* and one that failed has sent no artifact done and no task.complete
StartedStreamsEndWell ==
    \A s \in Slots :
        /\ streams[s].pc \in {"yield_complete", "yield_failed"} =>
               EndsWithOneTerminal(streams[s].events)
        /\ streams[s].pc = "yield_failed" =>
               LET n == Len(streams[s].events)
               IN  /\ streams[s].events[n].type = "task.status.update"
                   /\ streams[s].events[n].message # None
                   /\ \A j \in 1..n :
                          streams[s].events[j].type \notin {"task.artifact.done", "task.complete"}

\* C21 (as claimed): when the responder raises during a streaming send the
\* stream's last event is a status update with state failed that carries the
\* error text, with no artifact done and no task.complete; and every stream
\* ends with exactly one terminal event, a stream that is over with its first
\* response included.
C21_OneTerminalEvent ==
    /\ StartedStreamsEndWell
    /\ reply.response.kind = "stream" =>
           \/ reply.response.events = <<StatusUpdate(reply.response.events[1].taskId, "working", None)>>
           \/ EndsWithOneTerminal(reply.response.events)

\* the generator of slot s has gone past the responder call (server.py:216-222)
PastResponder(s) ==
    \/ streams[s].pc \in {"await_executor", "yield_update", "yield_artifact_done", "yield_complete"}
    \/ /\ streams[s].pc = "yield_failed"
       /\ streams[s].events[Len(streams[s].events)].message # AttrErrMsg

MessageFits(status) ==
    /\ status.message # None => status.state \in {"failed", "canceled"}
    /\ status.state \in {"submitted", "working", "completed"} => status.message = None

\* C23: a status carries a message only when its state is failed or canceled;
\* in submitted, working and completed the message is null. This holds of every
\* stored record, every record returned as a result and every status update
\* event of a stream.
C23_MessageOnlyWhenFailed ==
    /\ \A i \in DOMAIN tasks : MessageFits(tasks[i].status)
    /\ reply.response.kind = "result" => MessageFits(Result.status)
    /\ \A s \in Slots : \A j \in 1..Len(streams[s].events) :
           streams[s].events[j].type = "task.status.update" =>
               MessageFits(streams[s].events[j])

C23_Witness ==
    /\ Called("tasks/cancel") /\ reply.response.kind = "result"
    /\ reply.before.status.state = "failed" /\ reply.before.status.message # None
    /\ Result.status = TaskStatus("canceled", None)
    /\ \E s \in Slots : /\ streams[s].pc = "yield_complete"
                         /\ tasks[streams[s].task_id].status = TaskStatus("completed", None)

\* C24 (as claimed): a record in submitted, working or failed holds no
\* artifact, whatever sends and cancels overlapped on its id.
C24_OnlyCompletedHasArtifacts ==
    \A i \in DOMAIN tasks :
        tasks[i].status.state \in {"submitted", "working", "failed"} =>
            tasks[i].artifacts = NoArtifacts

\* what C24 has right: a record in submitted or working holds no artifact
WorkingHasNoArtifacts ==
    \A i \in DOMAIN tasks :
        tasks[i].status.state \in {"submitted", "working"} => tasks[i].artifacts = NoArtifacts

\* the step is a generator running from one suspension to the next
GeneratorStep(s) == reply = NoReply /\ reply' = NoReply /\ streams'[s] # streams[s]

\* C25: a tasks/send or tasks/cancel with id X creates or changes at most the
\* record stored under X (under the one generated id when the send has none),
\* also when the responder fails, and none when the call returns an error; the
\* later steps of a streaming send write at most the record of its own id.
C25_OnlyOwnRecord ==
    /\ [](Dispatched /\ reply.req.method \in {"tasks/send", "tasks/cancel"} =>
              /\ Cardinality(reply.touched) <= 1
              /\ reply.req.params.id # None => reply.touched \subseteq {reply.req.params.id}
              /\ reply.response.kind = "result" => reply.touched \subseteq {Result.id}
              /\ reply.response.kind = "error" => reply.touched = {})
    /\ [][\A s \in Slots :
              GeneratorStep(s) => Touched(tasks, tasks') \subseteq {streams[s].task_id}]_vars

C25_Witness ==
    /\ Asked /\ reply.outcome.raises /\ reply.req.params.id = "a"
    /\ reply.touched = {"a"}
    /\ \E i \in DOMAIN tasks : i # "a" /\ tasks[i].status.state = "completed"

\* the generator run from where it is suspended to its end, every event taken
\* and no other request handled in between; the registry it leaves
RECURSIVE stream_run(_, _, _)
stream_run(reg, f, outcome) ==
    IF f.pc = "await_executor"
    THEN LET st == stream_resume(reg, f, outcome) IN stream_run(st.reg, st.frame, outcome)
    ELSE IF f.pc \in {"yield_working", "yield_update", "yield_artifact_done"}
    THEN LET st == stream_next(reg, f) IN stream_run(st.reg, st.frame, outcome)
    ELSE reg

\* handle_tasks_send_stream (server.py:170-278) consumed to its end
handle_tasks_send_stream(reg, params, outcome) ==
    LET st == stream_start(reg, params) IN stream_run(st.reg, st.frame, outcome)

\* the ids a send may carry: a caller's, absent, or the empty string
SendIds == CallerIds \cup {None, ""}

\* uuid4 can still be drawn
CanGenerate(reg) == \E n \in 1..MaxSends : ("task_" \o ToString(n)) \notin DOMAIN reg

\* C27 (as claimed): from any registry, for every params and every responder
\* outcome, the streaming tasks/send run to its end and the non-streaming
\* tasks/send leave the same registry: the same id, status, message and
\* artifacts.
C27_SameFinalRecord ==
    \A id \in SendIds : \A message \in Messages : \A outcome \in Outcomes :
        CanGenerate(tasks) =>
            handle_tasks_send_stream(tasks, Params(id, message), outcome)
                = handle_tasks_send(tasks, Params(id, message), outcome).reg

\* where the two agree: one output item at most, and an id that is absent or
\* not empty (looked at in the states with no request and no generator under
\* way, which have every registry there is)
SameFinalRecordForOneItem ==
    \A id \in SendIds \ {""} : \A message \in Messages : \A outcome \in Outcomes :
        (/\ reply = NoReply /\ \A s \in Slots : streams[s].pc = "idle"
         /\ CanGenerate(tasks) /\ Len(outcome.items) <= 1) =>
            handle_tasks_send_stream(tasks, Params(id, message), outcome)
                = handle_tasks_send(tasks, Params(id, message), outcome).reg

\* the step leaves the record of id i in working, new or changed
LeftWorking(i) ==
    /\ i \in DOMAIN tasks' /\ tasks'[i].status.state = "working"
    /\ i \notin DOMAIN tasks \/ tasks[i] # tasks'[i]

\* C28: no request observes a record in submitted: no stored record, no
\* returned record and no status event has that state between two steps; and a
\* record is left in working only by the handling of a streaming send, up to
\* its first event, never by a non-streaming send nor by any other step.
C28_OnlyStreamExposesWorking ==
    /\ [](/\ \A i \in DOMAIN tasks : tasks[i].status.state # "submitted"
          /\ reply.response.kind = "result" => Result.status.state # "submitted"
          /\ \A s \in Slots : \A j \in 1..Len(streams[s].events) :
                 streams[s].events[j].state # "submitted")
    /\ [][\A i \in IdVals :
              LeftWorking(i) =>
                  /\ reply = NoReply /\ reply' # NoReply
                  /\ IsStream(reply'.req) /\ reply'.response.kind = "stream"
                  /\ reply'.response.events = <<StatusUpdate(i, "working", None)>>]_vars

C28_Witness ==
    /\ Called("tasks/get") /\ reply.response.kind = "result"
    /\ Result.status.state = "working"
    /\ \E s \in Slots : streams[s].task_id = Result.id /\ streams[s].pc = "await_executor"
    /\ \E i \in DOMAIN tasks : tasks[i].status.state = "completed"

\* C29: the set of registered ids only grows: no step removes an id; and a
\* tasks/get or tasks/cancel that names a registered id is answered with the
\* record of that id, never with an error.
C29_IdsOnlyGrow ==
    /\ [][DOMAIN tasks \subseteq DOMAIN tasks']_vars
    /\ []((Dispatched /\ reply.req.method \in {"tasks/get", "tasks/cancel"}
              /\ reply.req.params.obj /\ reply.before # NoTask) =>
               /\ reply.response.kind = "result"
               /\ Result.id = reply.req.params.id
               /\ reply.req.params.id \in DOMAIN tasks)

C29_Witness ==
    /\ Called("tasks/get") /\ reply.response.kind = "result"
    /\ reply.before.status.state = "canceled"
    /\ Cardinality(DOMAIN tasks) = 2

-----------------------------------------------------------------------------
(* Properties of the response agent and of the adapters *)

\* the id the claim says is stored after the calls h: that of the most recent
\* successful response, unless a later call failed with "500" in its error text
RECURSIVE LatestId(_)
LatestId(h) ==
    IF h = <<>> THEN None
    ELSE LET c == h[Len(h)].create
         IN  IF c.created THEN c.id
             ELSE IF Contains(<<"5", "0", "0">>, c.error) THEN None
             ELSE LatestId(SubSeq(h, 1, Len(h) - 1))

\* C26: each client.responses.create call carries as previous_response_id the
\* id of the most recent successful response, and none before the first
\* success; a call that fails leaves the stored id as it was, unless its error
\* text contains "500", and then the stored id is cleared, so that the next call
\* carries none.
C26_CarriesLatestId ==
    /\ last_response_id = LatestId(upstream_calls)
    /\ \A k \in 1..Len(upstream_calls) :
           upstream_calls[k].previous_response_id = LatestId(SubSeq(upstream_calls, 1, k - 1))

C26_Witness ==
    /\ Len(upstream_calls) = 3
    /\ upstream_calls[1].create = Created("resp_1", TRUE)
    /\ upstream_calls[1].previous_response_id = None
    /\ upstream_calls[2].create = CreateRaises(<<"4", "0", "4">>)
    /\ upstream_calls[3].previous_response_id = "resp_1"
    /\ upstream_calls[3].create = CreateRaises(<<"1", "5", "0", "0", "m", "s">>)
    /\ last_response_id = None

\* no request is being handled
NoChatInFlight == \A s \in ChatSlots : chat[s].pc = "idle"

\* C30 (as claimed): every MLflow run started while a POST /v1/chat/completions
\* was handled has been ended when the request has finished, whatever went
\* wrong after the run started, so no run is active when no request is being
\* handled.
C30_RunsAreEnded ==
    /\ last_chat.run # NoRun => last_chat.run \in mlflow.finished
    /\ NoChatInFlight => mlflow.active = <<>>

\* what C30 has right: the run is ended whenever the try block was entered
RunsEndedOnceInTry ==
    (last_chat.run # NoRun /\ last_chat.req.fault # "tag") => last_chat.run \in mlflow.finished

=========================================================================
